---- MODULE Spec2Model ----
(***************************************************************************)
(* Market-data refresh job (supabase/functions/refresh-market-data).       *)
(*                                                                         *)
(* Money is an integer count of 1/10000 dollar (the provider quotes four   *)
(* decimals), a percentage an integer count of 1/10000 percent, and        *)
(* threshold_percent an integer count of 1/100 percent.  A JavaScript      *)
(* value is a record: a finite number Num(v), NaN, or Undefined.  On the   *)
(* prices and thresholds used here the IEEE-754 double evaluation of       *)
(* (new - old) / old * 100 compares to the threshold exactly as the        *)
(* rational value does.                                                    *)
(***************************************************************************)
EXTENDS Integers, Sequences, FiniteSets, TLC

\* ------------------------------------------------------------------ bounds
NumInvocations == 2
MaxRequests == 4
MaxStoreFailures == 1
MaxSymbols == 3

\* ------------------------------------------------------- program constants
DelayMs == 12000

\* ---------------------------------------------------------------- domains
Invocations == 1..NumInvocations
Users == {"u1", "u2", "u3", "u4", "u5"}
NoUser == "none"
Absent == <<"absent">>

\* JavaScript values
Num(v) == [k |-> "num", v |-> v]
NaN == [k |-> "nan", v |-> 0]
Undefined == [k |-> "undefined", v |-> 0]

VARIABLES
    market_data,        \* table market_data: set of rows
    historical_prices,  \* table historical_prices: sequence of rows
    notifications,      \* table notifications: sequence of rows
    audit_logs,         \* table audit_logs: sequence of rows
    alert_thresholds,   \* table alert_thresholds: set of rows
    portfolios,         \* table portfolios: set of rows
    transactions,       \* table transactions: sequence of rows
    job,                \* per invocation: the handler's locals and position
    now,                \* wall clock, ms
    providerLog,        \* requests received by the quote provider
    answerLog,          \* the provider's answers, as the fetcher took them
    storeLog,           \* write statements received by the store
    storeFailures,      \* store calls that have failed so far
    watchlist,          \* MarketWatch page: the watchlist, in order
    selectedStock,      \* MarketWatch page: the symbol of the chart
    cards               \* MarketWatch page: symbols of the fetched quotes

vars == <<market_data, historical_prices, notifications, audit_logs,
          alert_thresholds, portfolios, transactions, job, now,
          providerLog, answerLog, storeLog, storeFailures,
          watchlist, selectedStock, cards>>

page == <<watchlist, selectedStock, cards>>
tables == <<market_data, historical_prices, notifications, audit_logs>>
inputs == <<alert_thresholds, portfolios, transactions>>

\* ---------------------------------------------------------------- helpers
Abs(x) == IF x < 0 THEN 0 - x ELSE x

Range(s) == {s[k] : k \in 1..Len(s)}

DedupNone(xs) == xs

RECURSIVE Dedup(_)
\* [...new Set(xs)]: first occurrences, in insertion order
Dedup(xs) ==
    IF xs = <<>> THEN <<>>
    ELSE LET front == Dedup(SubSeq(xs, 1, Len(xs) - 1))
             last == xs[Len(xs)]
         IN IF last \in Range(front) THEN front ELSE Append(front, last)

RECURSIVE SelectSeq2(_, _)
\* rows of a sequence that satisfy a set-membership filter, in table order
SelectSeq2(rows, keep) ==
    IF rows = <<>> THEN <<>>
    ELSE LET rest == SelectSeq2(Tail(rows), keep)
         IN IF Head(rows) \in keep THEN <<Head(rows)>> \o rest ELSE rest

\* ------------------------------------------------- text to number (parseFloat)
Digits == {"0", "1", "2", "3", "4", "5", "6", "7", "8", "9"}

DigitVal(c) ==
    CASE c = "0" -> 0 [] c = "1" -> 1 [] c = "2" -> 2 [] c = "3" -> 3
      [] c = "4" -> 4 [] c = "5" -> 5 [] c = "6" -> 6 [] c = "7" -> 7
      [] c = "8" -> 8 [] c = "9" -> 9

RECURSIVE DigitRun(_)
\* the longest prefix of s made of digits
DigitRun(s) ==
    IF s = <<>> \/ Head(s) \notin Digits THEN <<>>
    ELSE <<Head(s)>> \o DigitRun(Tail(s))

RECURSIVE DigitsValue(_)
DigitsValue(ds) ==
    IF ds = <<>> THEN 0
    ELSE 10 * DigitsValue(SubSeq(ds, 1, Len(ds) - 1)) + DigitVal(ds[Len(ds)])

Pad4(ds) ==
    \* a fraction's digits as a count of 1/10000 (the model's resolution)
    LET d == SubSeq(ds \o <<"0", "0", "0", "0">>, 1, 4) IN DigitsValue(d)

parseFloat(s) ==
    \* leading sign, digits, optional fraction; trailing text is ignored;
    \* no leading number gives NaN
    LET neg == s # <<>> /\ Head(s) = "-"
        body == IF neg THEN Tail(s) ELSE s
        ip == DigitRun(body)
        afterInt == SubSeq(body, Len(ip) + 1, Len(body))
        hasDot == afterInt # <<>> /\ Head(afterInt) = "."
        fp == IF hasDot THEN DigitRun(Tail(afterInt)) ELSE <<>>
        mag == 10000 * DigitsValue(ip) + Pad4(fp)
    IN IF ip = <<>> /\ fp = <<>> THEN NaN
       ELSE IF neg THEN Num(0 - mag) ELSE Num(mag)

RECURSIVE replacePercent(_)
\* String.prototype.replace('%', ''): drops the first '%' only
replacePercent(s) ==
    IF s = <<>> THEN <<>>
    ELSE IF Head(s) = "%" THEN Tail(s)
    ELSE <<Head(s)>> \o replacePercent(Tail(s))

\* --------------------------------------------- the quote provider's answers
NetworkError ==
    [kind |-> "network_error", quote |-> FALSE, price |-> Absent,
     chg |-> Absent]
Body(quote, price, chg) ==
    [kind |-> "json", quote |-> quote, price |-> price, chg |-> chg]

ProviderResponses ==
    { NetworkError,
      Body(FALSE, Absent, Absent),
      Body(TRUE, Absent, Absent),
      Body(TRUE, Absent, <<"0", ".", "0", "0", "0", "0", "%">>),
      Body(TRUE, <<"9", "5", ".", "0", "0", "0", "0">>, Absent),
      Body(TRUE, <<"9", "5", ".", "0", "0", "0", "0">>,
                 <<"-", "5", ".", "0", "0", "0", "0", "%">>),
      Body(TRUE, <<"1", "0", "5", ".", "0", "0", "4", "9">>,
                 <<"5", ".", "0", "0", "4", "9", "%">>) }

\* ------------------------------------------------------------ store: types
\* market_data.price is DECIMAL(15, 2): the store rounds to the cent
Round2(p) == ((p + 50) \div 100) * 100

\* market_data.price is NOT NULL CHECK (price >= 0); NaN is sent as null
AcceptsQuote(row) == row.price.k = "num" /\ row.price.v >= 0

UpsertReplaceAll(rows, row) ==
    {[row EXCEPT !.price = Round2(row.price.v),
                 !.change_percent = row.change_percent.v]}

UpsertNoConflictTarget(rows, row) ==
    rows \cup {[row EXCEPT !.price = Round2(row.price.v),
                           !.change_percent = row.change_percent.v]}

\* upsert(row, {onConflict: 'symbol'}): replace the row of that symbol
Upsert(rows, row) ==
    {r \in rows : r.symbol # row.symbol}
        \cup {[row EXCEPT !.price = Round2(row.price.v),
                           !.change_percent = row.change_percent.v]}

HistoryOverwrite(rows, row) ==
    IF \E k \in 1..Len(rows) : rows[k].symbol = row.symbol
    THEN [k \in 1..Len(rows) |->
            IF rows[k].symbol = row.symbol THEN row ELSE rows[k]]
    ELSE Append(rows, row)

\* from('historical_prices').insert(row): one more row
HistoryInsert(rows, row) == Append(rows, row)

\* currentPrices.get(symbol): undefined when the symbol has no entry
MapGet(m, k) == IF k \in DOMAIN m THEN Num(m[k]) ELSE Undefined

OrElseNullish(a, b) == IF a = Undefined THEN b ELSE a

\* JavaScript: a || b, on numbers and undefined
OrElse(a, b) == IF a = Undefined \/ a = NaN \/ a = Num(0) THEN b ELSE a

\* ------------------------------------------------------------ responses
Response(status, body) == [status |-> status, body |-> body]
EmptyBody ==
    [kind |-> "null", text |-> "", updated |-> 0, symbols |-> <<>>,
     note |-> ""]
NoResponse == Response(0, EmptyBody)
MessageBody(m) == [EmptyBody EXCEPT !.kind = "message", !.text = m]
ErrorBody(m) == [EmptyBody EXCEPT !.kind = "error", !.text = m]
SuccessBody(updated, symbols, note) ==
    [EmptyBody EXCEPT !.kind = "success", !.updated = updated,
                      !.symbols = symbols, !.note = note]

NoteSome == "Some symbols could not be updated due to API availability"
NoteAll == "All symbols updated successfully"

\* ------------------------------------------------------ the stored fixture
Portfolios0 ==
    { [id |-> "p1", owner_id |-> "u1"], [id |-> "p2", owner_id |-> "u1"],
      [id |-> "p3", owner_id |-> "u2"], [id |-> "p4", owner_id |-> "u3"],
      [id |-> "p5", owner_id |-> "u4"] }

Transactions0 ==
    << [portfolio_id |-> "p1", symbol |-> "AAPL"],
       [portfolio_id |-> "p1", symbol |-> "MSFT"],
       [portfolio_id |-> "p2", symbol |-> "AAPL"],
       [portfolio_id |-> "p2", symbol |-> "GOOG"],
       [portfolio_id |-> "p3", symbol |-> "AAPL"],
       [portfolio_id |-> "p4", symbol |-> "TSLA"] >>

Symbols == {"AAPL", "MSFT", "GOOG", "TSLA"}

AlertThresholds0 ==
    { [user_id |-> "u1", symbol |-> "AAPL", threshold_percent |-> 500],
      [user_id |-> "u1", symbol |-> "MSFT", threshold_percent |-> 0],
      [user_id |-> "u2", symbol |-> "AAPL", threshold_percent |-> 501],
      [user_id |-> "u3", symbol |-> "TSLA", threshold_percent |-> 500] }

MarketData0 ==
    { [symbol |-> "AAPL", price |-> 1000000, change_percent |-> 0,
       updated_at |-> 0],
      [symbol |-> "GOOG", price |-> 950000, change_percent |-> 0,
       updated_at |-> 0],
      [symbol |-> "TSLA", price |-> 0, change_percent |-> 0,
       updated_at |-> 0] }

\* ------------------------------------------------------------------- Init
\* useState of MarketWatch
PageInit ==
    /\ watchlist = <<"AAPL", "MSFT", "GOOGL", "TSLA">>
    /\ selectedStock = "AAPL"
    /\ cards = {}

Job0 ==
    [ pc |-> "idle", user |-> NoUser, portfolioIds |-> {},
      uniqueSymbols |-> <<>>, currentPrices |-> <<>>, fi |-> 0,
      results |-> <<>>, marketData |-> <<>>, mi |-> 0, oldPrice |-> Undefined,
      newPrice |-> Undefined, symbol |-> "", userId |-> NoUser,
      wakeAt |-> 0, ret |-> "",
      method |-> "", authHeader |-> "", response |-> NoResponse,
      reads |-> {},        \* tables this invocation has read
      failed |-> {},       \* tables whose read failed
      evaluated |-> <<>>,  \* symbols checkPriceAlerts was called with
      before |-> [market_data |-> {}, historical_prices |-> <<>>,
                  notifications |-> <<>>, audit_logs |-> <<>>] ]

Init ==
    /\ market_data = MarketData0
    /\ historical_prices = <<>>
    /\ notifications = <<>>
    /\ audit_logs = <<>>
    /\ alert_thresholds = AlertThresholds0
    /\ portfolios = Portfolios0
    /\ transactions = Transactions0
    /\ job = [i \in Invocations |-> Job0]
    /\ now = 0
    /\ providerLog = <<>>
    /\ answerLog = <<>>
    /\ storeLog = <<>>
    /\ storeFailures = 0
    /\ PageInit

\* ------------------------------------------------------- request handling
Methods == {"OPTIONS", "POST"}
NoHeader == "none"
AuthHeaders == {NoHeader, "Bearer expired"} \cup {"Bearer " \o u : u \in Users}

\* supabase.auth.getUser(token): the token's subject, or no user
TokenUser(token) ==
    IF \E u \in Users : token = u THEN token ELSE NoUser

\* authHeader.replace('Bearer ', '')
StripBearer(h) ==
    IF \E u \in Users : h = "Bearer " \o u
    THEN CHOOSE u \in Users : h = "Bearer " \o u
    ELSE "expired"

\* a call to the store succeeds (TRUE) or fails (FALSE); the number of
\* failures in a behaviour is bounded
Reliable == {TRUE}
Unreliable ==
    {TRUE} \cup (IF storeFailures < MaxStoreFailures THEN {FALSE} ELSE {})

\* a write statement as the store received it, and whether it took effect
LogEntry(i, table, symbol, price, ok) ==
    [inv |-> i, table |-> table, symbol |-> symbol, price |-> price,
     ok |-> ok]

CountFailure(ok) ==
    storeFailures' = IF ok THEN storeFailures ELSE storeFailures + 1

Respond(j, status, body) ==
    [j EXCEPT !.pc = "done", !.response = Response(status, body)]

\* catch (error): HTTP 500 with the error's message
Catch(j, message) == Respond(j, 500, ErrorBody(message))

\* the tables as an invocation finds them
Snapshot ==
    [market_data |-> market_data, historical_prices |-> historical_prices,
     notifications |-> notifications, audit_logs |-> audit_logs]

\* Deno.serve handler entry, up to the first await
Invoke(i, method, authHeader) ==
    /\ job[i].pc = "idle"
    /\ LET j == [job[i] EXCEPT !.method = method, !.authHeader = authHeader,
                               !.before = Snapshot]
       IN job' = [job EXCEPT ![i] =
            IF method = "OPTIONS" THEN Respond(j, 200, EmptyBody)
            ELSE IF authHeader = NoHeader
                 THEN Catch(j, "No authorization header")
            ELSE [j EXCEPT !.pc = "getUser"]]
    /\ UNCHANGED <<tables, inputs, page, now, providerLog, answerLog, storeLog, storeFailures>>

GetUserNoCheck(i, ok) ==
    /\ job[i].pc = "getUser"
    /\ LET j == job[i]
           user == IF ok THEN TokenUser(StripBearer(j.authHeader)) ELSE NoUser
       IN job' = [job EXCEPT ![i] =
            [j EXCEPT !.pc = "selectPortfolios", !.user = user]]
    /\ CountFailure(ok)
    /\ UNCHANGED <<tables, inputs, page, now, providerLog, answerLog, storeLog>>

\* await supabase.auth.getUser(token)
GetUser(i, ok) ==
    /\ job[i].pc = "getUser"
    /\ LET j == job[i]
           user == IF ok THEN TokenUser(StripBearer(j.authHeader)) ELSE NoUser
       IN job' = [job EXCEPT ![i] =
            IF user = NoUser THEN Catch(j, "Unauthorized")
            ELSE [j EXCEPT !.pc = "selectPortfolios", !.user = user]]
    /\ CountFailure(ok)
    /\ UNCHANGED <<tables, inputs, page, now, providerLog, answerLog, storeLog>>

SelectPortfoliosIgnoreError(i, ok) ==
    /\ job[i].pc = "selectPortfolios"
    /\ LET j == [job[i] EXCEPT !.reads = @ \cup {"portfolios"},
                            !.failed = IF ok THEN @ ELSE @ \cup {"portfolios"}]
           ids == IF ok
                  THEN {p.id : p \in {q \in portfolios : q.owner_id = j.user}}
                  ELSE {}
       IN job' = [job EXCEPT ![i] =
            IF ids = {}
            THEN Respond(j, 200, MessageBody("No portfolios found"))
            ELSE [j EXCEPT !.pc = "selectTransactions",
                           !.portfolioIds = ids]]
    /\ CountFailure(ok)
    /\ UNCHANGED <<tables, inputs, page, now, providerLog, answerLog, storeLog>>

\* await supabase.from('portfolios').select('id').eq('owner_id', user.id)
SelectPortfolios(i, ok) ==
    /\ job[i].pc = "selectPortfolios"
    /\ LET j == [job[i] EXCEPT !.reads = @ \cup {"portfolios"},
                            !.failed = IF ok THEN @ ELSE @ \cup {"portfolios"}]
           ids == {p.id : p \in {q \in portfolios : q.owner_id = j.user}}
       IN job' = [job EXCEPT ![i] =
            IF ~ok THEN Catch(j, "portfolios read failed")
            ELSE IF ids = {}
                 THEN Respond(j, 200, MessageBody("No portfolios found"))
            ELSE [j EXCEPT !.pc = "selectTransactions",
                           !.portfolioIds = ids]]
    /\ CountFailure(ok)
    /\ UNCHANGED <<tables, inputs, page, now, providerLog, answerLog, storeLog>>

\* transactions of the caller's portfolios, in table order
TransactionSymbols(ids) ==
    LET rows == SelectSeq2(transactions,
                           {t \in Range(transactions) : t.portfolio_id \in ids})
    IN [k \in 1..Len(rows) |-> rows[k].symbol]

SelectTransactionsNoCheck(i, ok) ==
    /\ job[i].pc = "selectTransactions"
    /\ LET j == [job[i] EXCEPT !.reads = @ \cup {"transactions"},
                            !.failed = IF ok THEN @ ELSE @ \cup {"transactions"}]
           uniqueSymbols == Dedup(TransactionSymbols(j.portfolioIds))
       IN job' = [job EXCEPT ![i] =
            IF ~ok THEN Catch(j, "transactions read failed")
            ELSE [j EXCEPT !.pc = "selectMarketData",
                           !.uniqueSymbols = uniqueSymbols]]
    /\ CountFailure(ok)
    /\ UNCHANGED <<tables, inputs, page, now, providerLog, answerLog, storeLog>>

\* await supabase.from('transactions').select('symbol').in(...)
SelectTransactions(i, ok) ==
    /\ job[i].pc = "selectTransactions"
    /\ LET j == [job[i] EXCEPT !.reads = @ \cup {"transactions"},
                            !.failed = IF ok THEN @ ELSE @ \cup {"transactions"}]
           uniqueSymbols == Dedup(TransactionSymbols(j.portfolioIds))
       IN job' = [job EXCEPT ![i] =
            IF ~ok THEN Catch(j, "transactions read failed")
            ELSE IF Len(uniqueSymbols) = 0
                 THEN Respond(j, 200, MessageBody("No symbols to update"))
            ELSE [j EXCEPT !.pc = "selectMarketData",
                           !.uniqueSymbols = uniqueSymbols]]
    /\ CountFailure(ok)
    /\ UNCHANGED <<tables, inputs, page, now, providerLog, answerLog, storeLog>>

\* ------------------------------------------------------- fetchMarketData
\* data['Global Quote'] && data['Global Quote']['05. price']
HasPrice(resp) == resp.quote /\ resp.price # Absent /\ resp.price # <<>>

\* the provider answered with a body that carries a price and a change
\* percent: the fetch of the symbol succeeded
Fetched(resp) ==
    resp.kind = "json" /\ resp.quote /\ resp.price # Absent
        /\ resp.chg # Absent

FetchOutcomeUnchecked(resp) ==
    IF resp.kind = "network_error" THEN "error"
    ELSE IF resp.chg = Absent THEN "error"
    ELSE "quote"

\* the outcome of one loop body, lines 33-58: "quote" pushes a result,
\* "no_data" takes the else branch, "error" lands in the catch block
\* (fetch rejected, or .replace called on a missing change percent)
FetchOutcome(resp) ==
    IF resp.kind = "network_error" THEN "error"
    ELSE IF ~HasPrice(resp) THEN "no_data"
    ELSE IF resp.chg = Absent THEN "error"
    ELSE "quote"

MarketDataUpdate(symbol, resp) ==
    [symbol |-> symbol, price |-> parseFloat(resp.price),
     change_percent |-> parseFloat(replacePercent(resp.chg))]

OldPriceNew(j, data) == data.price

\* line 174, evaluated at the head of each iteration of the handler's loop
OldPrice(j, data) == OrElse(MapGet(j.currentPrices, data.symbol), data.price)

LoopHeadSkipAudit(j, mi) ==
    IF mi <= Len(j.marketData)
    THEN [j EXCEPT !.pc = "upsert", !.mi = mi,
                   !.oldPrice = OldPrice(j, j.marketData[mi])]
    ELSE IF Len(j.marketData) = 0
         THEN Respond(j, 200, SuccessBody(0, j.uniqueSymbols, NoteSome))
    ELSE [j EXCEPT !.pc = "insertAudit", !.mi = mi]

\* the handler's for loop over marketData, lines 173-200, at its head
LoopHead(j, mi) ==
    IF mi <= Len(j.marketData)
    THEN [j EXCEPT !.pc = "upsert", !.mi = mi,
                   !.oldPrice = OldPrice(j, j.marketData[mi])]
    ELSE [j EXCEPT !.pc = "insertAudit", !.mi = mi]

\* the fetcher's for loop, lines 28-61, at its head: the next request, or
\* return results to the handler
FetchLoopHead(j, fi) ==
    IF fi <= Len(j.uniqueSymbols)
    THEN [j EXCEPT !.pc = "fetch", !.fi = fi]
    ELSE LoopHead([j EXCEPT !.fi = fi, !.marketData = j.results,
                            !.results = <<>>], 1)

\* new Map(currentMarketData?.map(d => [d.symbol, d.price]) || [])
PriceMap(rows) ==
    [s \in {r.symbol : r \in rows} |->
        (CHOOSE r \in rows : r.symbol = s).price]

SelectMarketDataThrow(i, ok) ==
    /\ job[i].pc = "selectMarketData"
    /\ LET j == [job[i] EXCEPT !.reads = @ \cup {"market_data"},
                            !.failed = IF ok THEN @ ELSE @ \cup {"market_data"}]
           rows == {r \in market_data : r.symbol \in Range(j.uniqueSymbols)}
       IN job' = [job EXCEPT ![i] =
            IF ~ok THEN Catch(j, "market_data read failed")
            ELSE FetchLoopHead([j EXCEPT !.currentPrices = PriceMap(rows),
                                         !.results = <<>>], 1)]
    /\ CountFailure(ok)
    /\ UNCHANGED <<tables, inputs, page, now, providerLog, answerLog, storeLog>>

\* await supabase.from('market_data').select('symbol, price').in(...);
\* then fetchMarketData(uniqueSymbols) is entered
SelectMarketData(i, ok) ==
    /\ job[i].pc = "selectMarketData"
    /\ LET j == [job[i] EXCEPT !.reads = @ \cup {"market_data"},
                            !.failed = IF ok THEN @ ELSE @ \cup {"market_data"}]
           rows == IF ok
                   THEN {r \in market_data : r.symbol \in Range(j.uniqueSymbols)}
                   ELSE {}
       IN job' = [job EXCEPT ![i] =
            FetchLoopHead([j EXCEPT !.currentPrices = PriceMap(rows),
                                    !.results = <<>>], 1)]
    /\ CountFailure(ok)
    /\ UNCHANGED <<tables, inputs, page, now, providerLog, answerLog, storeLog>>

AfterCatchRetry(j) == FetchLoopHead(j, j.fi)

AfterCatchAbort(j) == FetchLoopHead(j, Len(j.uniqueSymbols) + 1)

\* catch (error) { console.error(...) }: on to the next symbol
AfterCatch(j) == FetchLoopHead(j, j.fi + 1)

\* const response = await fetch(url): the request leaves
FetchRequest(i) ==
    /\ job[i].pc = "fetch"
    /\ Len(providerLog) < MaxRequests
    /\ providerLog' = Append(providerLog,
            [inv |-> i, symbol |-> job[i].uniqueSymbols[job[i].fi],
             at |-> now])
    /\ job' = [job EXCEPT ![i].pc = "awaitFetch"]
    /\ UNCHANGED <<tables, inputs, page, now, answerLog, storeLog, storeFailures>>

\* the provider's answer arrives; lines 34-58
FetchResponse(i, resp) ==
    /\ job[i].pc = "awaitFetch"
    /\ LET j == job[i]
           symbol == j.uniqueSymbols[j.fi]
           outcome == FetchOutcome(resp)
           pushed == IF outcome = "quote"
                     THEN Append(j.results, MarketDataUpdate(symbol, resp))
                     ELSE j.results
       IN /\ job' = [job EXCEPT ![i] =
            IF outcome = "error"
            THEN AfterCatch(j)
            ELSE [j EXCEPT !.pc = "sleep", !.results = pushed,
                           !.wakeAt = now + DelayMs]]
          /\ answerLog' = Append(answerLog,
                [inv |-> i, symbol |-> symbol, fetched |-> Fetched(resp),
                 price |-> IF Fetched(resp) THEN parseFloat(resp.price)
                           ELSE Undefined])
    /\ UNCHANGED <<tables, inputs, page, now, providerLog, storeLog, storeFailures>>

\* await new Promise(resolve => setTimeout(resolve, 12000)) resolves
Wake(i) ==
    /\ job[i].pc = "sleep"
    /\ now >= job[i].wakeAt
    /\ job' = [job EXCEPT ![i] = FetchLoopHead(job[i], job[i].fi + 1)]
    /\ UNCHANGED <<tables, inputs, page, now, providerLog, answerLog, storeLog, storeFailures>>

Sleepers == {i \in Invocations : job[i].pc = "sleep" /\ job[i].wakeAt > now}

\* time passes: the clock moves to the earliest pending timer
Tick ==
    /\ Sleepers # {}
    /\ now' = CHOOSE t \in {job[i].wakeAt : i \in Sleepers} :
                 \A i \in Sleepers : t <= job[i].wakeAt
    /\ UNCHANGED <<tables, inputs, page, job, providerLog, answerLog, storeLog,
                   storeFailures>>

\* ------------------------------------------------------ checkPriceAlerts
\* ((newPrice - oldPrice) / oldPrice) * 100 as a JavaScript number: the
\* percentage 100 * n / d for integers n and d, an infinity, or NaN
changePercent(oldPrice, newPrice) ==
    IF oldPrice.k # "num" \/ newPrice.k # "num" THEN [k |-> "nan", n |-> 0, d |-> 1]
    ELSE IF oldPrice.v = 0
         THEN IF newPrice.v = 0 THEN [k |-> "nan", n |-> 0, d |-> 1]
              ELSE [k |-> "inf", n |-> newPrice.v, d |-> 1]
    ELSE [k |-> "num", n |-> newPrice.v - oldPrice.v, d |-> oldPrice.v]

\* Math.abs(changePercent) >= threshold.threshold_percent
AtThresholdStrict(cp, threshold_percent) ==
    CASE cp.k = "nan" -> FALSE
      [] cp.k = "inf" -> TRUE
      [] OTHER ->
            Abs(cp.n) > (threshold_percent * Abs(cp.d)) \div 10000

\* Math.abs(changePercent) >= threshold.threshold_percent
AtThreshold(cp, threshold_percent) ==
    CASE cp.k = "nan" -> FALSE
      [] cp.k = "inf" -> TRUE
      [] OTHER ->
            \* 100 * |n| / |d| >= threshold_percent / 100, in integers
            Abs(cp.n) >= (threshold_percent * Abs(cp.d) + 9999) \div 10000

\* Number.prototype.toFixed(2), as a count of 1/100
toFixed2(x) == IF x.k = "num" THEN Num(Round2(x.v) \div 100) ELSE x

\* changePercent.toFixed(2), as a count of 1/100 percent
toFixed2Percent(cp) ==
    IF cp.k # "num" THEN [k |-> cp.k, v |-> 0]
    ELSE LET d == Abs(cp.d)
             r1 == 100 * (Abs(cp.n) % d)
             r2 == 100 * (r1 % d)
             mag == 10000 * (Abs(cp.n) \div d) + 100 * (r1 \div d)
                        + (r2 + (d \div 2)) \div d
         IN Num(IF (cp.n < 0) # (cp.d < 0) THEN 0 - mag ELSE mag)

Notification(userId, symbol, oldPrice, newPrice) ==
    [user_id |-> userId, symbol |-> symbol, type |-> "price_alert",
     message |-> [changePercent |-> toFixed2Percent(changePercent(oldPrice, newPrice)),
                  oldPrice |-> toFixed2(oldPrice),
                  newPrice |-> toFixed2(newPrice)]]

\* checkPriceAlerts returns to its caller
Return(j) ==
    IF j.ret = "handler" THEN LoopHead(j, j.mi + 1)
    ELSE [j EXCEPT !.pc = "returned"]

\* checkPriceAlerts(supabase, userId, symbol, oldPrice, newPrice) is entered
Call(j, ret, userId, symbol, oldPrice, newPrice) ==
    [j EXCEPT !.pc = "selectThresholds", !.ret = ret, !.userId = userId,
              !.symbol = symbol, !.oldPrice = oldPrice,
              !.newPrice = newPrice,
              !.evaluated = Append(@, symbol)]

\* await supabase.from('alert_thresholds').select('*').eq(..).eq(..);
\* lines 80-83 follow
SelectThresholds(i, ok) ==
    /\ job[i].pc = "selectThresholds"
    /\ LET j == [job[i] EXCEPT !.reads = @ \cup {"alert_thresholds"}]
           thresholds == IF ok
                         THEN {t \in alert_thresholds :
                                 t.user_id = j.userId /\ t.symbol = j.symbol}
                         ELSE {}
       IN job' = [job EXCEPT ![i] =
            IF thresholds # {}
               /\ AtThreshold(changePercent(j.oldPrice, j.newPrice),
                              (CHOOSE t \in thresholds : TRUE).threshold_percent)
            THEN [j EXCEPT !.pc = "insertNotification"]
            ELSE Return(j)]
    /\ CountFailure(ok)
    /\ UNCHANGED <<tables, inputs, page, now, providerLog, answerLog, storeLog>>

\* await supabase.from('notifications').insert({...})
InsertNotification(i, ok) ==
    /\ job[i].pc = "insertNotification"
    /\ LET j == job[i]
           row == Notification(j.userId, j.symbol, j.oldPrice, j.newPrice)
       IN /\ notifications' = IF ok THEN Append(notifications, row)
                              ELSE notifications
          /\ storeLog' = Append(storeLog,
                LogEntry(i, "notifications", j.symbol, j.newPrice, ok))
          /\ job' = [job EXCEPT ![i] = Return(j)]
    /\ CountFailure(ok)
    /\ UNCHANGED <<market_data, historical_prices, audit_logs, inputs, page, now,
                   providerLog, answerLog>>

\* -------------------------------------------------- the handler's loop
UpsertMarketDataThrow(i, ok) ==
    /\ job[i].pc = "upsert"
    /\ LET j == job[i]
           data == j.marketData[j.mi]
           row == [symbol |-> data.symbol, price |-> data.price,
                   change_percent |-> data.change_percent, updated_at |-> now]
           done == ok /\ AcceptsQuote(row)
       IN /\ market_data' = IF done THEN Upsert(market_data, row)
                            ELSE market_data
          /\ storeLog' = Append(storeLog,
                LogEntry(i, "market_data", data.symbol, data.price, done))
          /\ job' = [job EXCEPT ![i] =
                IF done THEN [j EXCEPT !.pc = "insertHistory"]
                ELSE Catch(j, "upsert failed")]
    /\ CountFailure(ok)
    /\ UNCHANGED <<historical_prices, notifications, audit_logs, inputs, page, now,
                   providerLog, answerLog>>

\* await supabase.from('market_data').upsert({...}, {onConflict: 'symbol'})
UpsertMarketData(i, ok) ==
    /\ job[i].pc = "upsert"
    /\ LET j == job[i]
           data == j.marketData[j.mi]
           row == [symbol |-> data.symbol, price |-> data.price,
                   change_percent |-> data.change_percent, updated_at |-> now]
           done == ok /\ AcceptsQuote(row)
       IN /\ market_data' = IF done THEN Upsert(market_data, row)
                            ELSE market_data
          /\ storeLog' = Append(storeLog,
                LogEntry(i, "market_data", data.symbol, data.price, done))
          /\ job' = [job EXCEPT ![i].pc = "insertHistory"]
    /\ CountFailure(ok)
    /\ UNCHANGED <<historical_prices, notifications, audit_logs, inputs, page, now,
                   providerLog, answerLog>>

\* await supabase.from('historical_prices').insert({...}); then
\* checkPriceAlerts is entered, line 199
InsertHistory(i, ok) ==
    /\ job[i].pc = "insertHistory"
    /\ LET j == job[i]
           data == j.marketData[j.mi]
           row == [symbol |-> data.symbol, price |-> data.price.v,
                   close_price |-> data.price.v, recorded_at |-> now]
           done == ok /\ data.price.k = "num"
       IN /\ historical_prices' =
                IF done THEN HistoryInsert(historical_prices, row)
                ELSE historical_prices
          /\ storeLog' = Append(storeLog,
                LogEntry(i, "historical_prices", data.symbol, data.price,
                         done))
          /\ job' = [job EXCEPT ![i] =
                Call(j, "handler", j.user, data.symbol, j.oldPrice,
                     data.price)]
    /\ CountFailure(ok)
    /\ UNCHANGED <<market_data, notifications, audit_logs, inputs, page, now,
                   providerLog, answerLog>>

InsertAuditCountWrites(i, ok) ==
    /\ job[i].pc = "insertAudit"
    /\ LET j == job[i]
           written == Len(SelectSeq(storeLog, LAMBDA w :
                          w.inv = i /\ w.table = "market_data" /\ w.ok))
           row == [user_id |-> j.user, action |-> "REFRESH_MARKET_DATA",
                   resource_type |-> "market_data",
                   details |-> [symbols |-> j.uniqueSymbols,
                                count |-> written],
                   status_code |-> 200]
           note == IF Len(j.marketData) < Len(j.uniqueSymbols)
                   THEN NoteSome ELSE NoteAll
       IN /\ audit_logs' = IF ok THEN Append(audit_logs, row) ELSE audit_logs
          /\ storeLog' = Append(storeLog,
                LogEntry(i, "audit_logs", "", Undefined, ok))
          /\ job' = [job EXCEPT ![i] =
                Respond(j, 200, SuccessBody(Len(j.marketData),
                                            j.uniqueSymbols, note))]
    /\ CountFailure(ok)
    /\ UNCHANGED <<market_data, historical_prices, notifications, inputs, page, now,
                   providerLog, answerLog>>

\* await supabase.from('audit_logs').insert({...}); then the response
InsertAudit(i, ok) ==
    /\ job[i].pc = "insertAudit"
    /\ LET j == job[i]
           row == [user_id |-> j.user, action |-> "REFRESH_MARKET_DATA",
                   resource_type |-> "market_data",
                   details |-> [symbols |-> j.uniqueSymbols,
                                count |-> Len(j.marketData)],
                   status_code |-> 200]
           note == IF Len(j.marketData) < Len(j.uniqueSymbols)
                   THEN NoteSome ELSE NoteAll
       IN /\ audit_logs' = IF ok THEN Append(audit_logs, row) ELSE audit_logs
          /\ storeLog' = Append(storeLog,
                LogEntry(i, "audit_logs", "", Undefined, ok))
          /\ job' = [job EXCEPT ![i] =
                Respond(j, 200, SuccessBody(Len(j.marketData),
                                            j.uniqueSymbols, note))]
    /\ CountFailure(ok)
    /\ UNCHANGED <<market_data, historical_prices, notifications, inputs, page, now,
                   providerLog, answerLog>>

\* ------------------------------------------------------------------ Next
Done(i) == job[i].pc = "done"
Started(i) == job[i].pc # "idle"

\* one step of invocation i, the store answering with an outcome of O and
\* the provider with a response of R
StepWith(i, O, R) ==
    \/ \E ok \in O : GetUser(i, ok)
    \/ \E ok \in O : SelectPortfolios(i, ok)
    \/ \E ok \in O : SelectTransactions(i, ok)
    \/ \E ok \in O : SelectMarketData(i, ok)
    \/ FetchRequest(i)
    \/ \E r \in R : FetchResponse(i, r)
    \/ Wake(i)
    \/ \E ok \in O : UpsertMarketData(i, ok)
    \/ \E ok \in O : InsertHistory(i, ok)
    \/ \E ok \in O : SelectThresholds(i, ok)
    \/ \E ok \in O : InsertNotification(i, ok)
    \/ \E ok \in O : InsertAudit(i, ok)

Step(i, O) == StepWith(i, O, ProviderResponses)

\* the job is triggered when no other invocation is in progress; the
\* invocations are numbered in the order they arrive
Quiet(i) ==
    /\ \A k \in Invocations : job[k].pc \in {"idle", "done"}
    /\ \A k \in Invocations : k < i => job[k].pc = "done"

Trigger(i) == \E m \in Methods, h \in AuthHeaders : Invoke(i, m, h)

\* job runs one after another, every store call succeeding
Next ==
    \/ \E i \in Invocations : Quiet(i) /\ Trigger(i)
    \/ \E i \in Invocations : Step(i, Reliable)
    \/ Tick

Spec == Init /\ [][Next]_vars

\* one job run, store calls failing now and then
NextFaulty ==
    \/ Quiet(1) /\ Trigger(1)
    \/ Step(1, Unreliable)
    \/ Tick

SpecFaulty == Init /\ [][NextFaulty]_vars

\* the same run, every pending provider request, store call and timer
\* eventually completing
SpecLive ==
    /\ Init
    /\ [][NextFaulty]_vars
    /\ WF_vars(Step(1, Unreliable))
    /\ WF_vars(Tick)

\* the provider's answers to overlapping invocations: a failure and the
\* two quotes
OverlapResponses ==
    {r \in ProviderResponses : r.kind = "network_error" \/ Fetched(r)}

\* the caller of the invocations that may overlap
OverlapHeaders == {"Bearer u2"}

\* an invocation arrives while the one before it may still be in progress;
\* the ones before that have finished (two handlers in flight at most)
Arrive(i) ==
    /\ \A k \in Invocations : k < i => Started(k)
    /\ \A k \in Invocations : k + 1 < i => Done(k)
    /\ \E h \in OverlapHeaders : Invoke(i, "POST", h)

\* invocations overlap freely: the platform starts a handler per request
\* and the handlers interleave at their awaits
NextOverlap ==
    \/ \E i \in Invocations : Arrive(i)
    \/ \E i \in Invocations : StepWith(i, Reliable, OverlapResponses)
    \/ Tick

SpecOverlap == Init /\ [][NextOverlap]_vars

\* the same overlapping invocations, the caller having set a threshold of
\* 5.00 percent on the symbol it holds
OverlapThresholds ==
    {[user_id |-> "u2", symbol |-> "AAPL", threshold_percent |-> 500]}

InitOverlapAlert ==
    /\ market_data = MarketData0
    /\ historical_prices = <<>>
    /\ notifications = <<>>
    /\ audit_logs = <<>>
    /\ alert_thresholds = OverlapThresholds
    /\ portfolios = Portfolios0
    /\ transactions = Transactions0
    /\ job = [i \in Invocations |-> Job0]
    /\ now = 0
    /\ providerLog = <<>>
    /\ answerLog = <<>>
    /\ storeLog = <<>>
    /\ storeFailures = 0
    /\ PageInit

SpecOverlapAlert == InitOverlapAlert /\ [][NextOverlap]_vars

\* ------------------------------------------- checkPriceAlerts on its own
\* checkPriceAlerts called with arguments of the caller's choosing, against
\* a threshold table of the caller's choosing
AlertPrices == {Num(0), Num(950000), Num(1000000), Num(1050000), NaN}
AlertThresholdTables ==
    { {[user_id |-> "u2", symbol |-> "AAPL", threshold_percent |-> 0]} \cup rows :
        rows \in { {} } \cup
                 { {[user_id |-> "u1", symbol |-> "AAPL",
                     threshold_percent |-> t]} : t \in {0, 500, 501} } }

InitAlert ==
    /\ market_data = MarketData0
    /\ historical_prices = <<>>
    /\ notifications = <<>>
    /\ audit_logs = <<>>
    /\ alert_thresholds \in AlertThresholdTables
    /\ portfolios = Portfolios0
    /\ transactions = Transactions0
    /\ \E userId \in {"u1", "u3"}, symbol \in {"AAPL", "MSFT"},
          oldPrice \in AlertPrices, newPrice \in AlertPrices :
          job = [i \in Invocations |->
                    IF i = 1
                    THEN Call(Job0, "caller", userId, symbol, oldPrice,
                              newPrice)
                    ELSE Job0]
    /\ now = 0
    /\ providerLog = <<>>
    /\ answerLog = <<>>
    /\ storeLog = <<>>
    /\ storeFailures = 0
    /\ PageInit

NextAlert ==
    \/ \E ok \in Reliable : SelectThresholds(1, ok)
    \/ \E ok \in Reliable : InsertNotification(1, ok)

SpecAlert == InitAlert /\ [][NextAlert]_vars

\* -------------------------------------------- fetchMarketData on its own
\* fetchMarketData called with a symbol list of the caller's choosing,
\* repeated symbols included
FetchInputs ==
    UNION {[1..n -> {"AAPL", "MSFT"}] : n \in 0..MaxSymbols}

InitFetch ==
    /\ market_data = MarketData0
    /\ historical_prices = <<>>
    /\ notifications = <<>>
    /\ audit_logs = <<>>
    /\ alert_thresholds = AlertThresholds0
    /\ portfolios = Portfolios0
    /\ transactions = Transactions0
    /\ \E symbols \in FetchInputs :
          job = [i \in Invocations |->
                    IF i = 1
                    THEN FetchLoopHead([Job0 EXCEPT !.uniqueSymbols = symbols],
                                       1)
                    ELSE Job0]
    /\ now = 0
    /\ providerLog = <<>>
    /\ answerLog = <<>>
    /\ storeLog = <<>>
    /\ storeFailures = 0
    /\ PageInit

\* the fetcher runs until it returns its results
NextFetch ==
    \/ FetchRequest(1)
    \/ \E r \in ProviderResponses : FetchResponse(1, r)
    \/ Wake(1)
    \/ Tick

SpecFetch == InitFetch /\ [][NextFetch]_vars

\* ------------------------------------------------- the MarketWatch page
\* symbols the stock search can hand to handleAddToWatchlist
WatchSymbols == {"AAPL", "MSFT", "GOOGL", "TSLA", "NVDA"}

\* watchlist.filter(s => s !== symbol)
Without(list, symbol) == SelectSeq(list, LAMBDA s : s # symbol)

job_state ==
    <<tables, inputs, job, now, providerLog, answerLog, storeLog,
      storeFailures>>

\* handleAddToWatchlist(symbol, name)
handleAddToWatchlist(symbol) ==
    /\ watchlist' = IF symbol \notin Range(watchlist)
                    THEN Append(watchlist, symbol)
                    ELSE watchlist
    /\ UNCHANGED <<selectedStock, cards, job_state>>

\* removeFromWatchlist(symbol): both setters are called with the values
\* of the current render, so watchlist[0] is the first symbol before the
\* removal
removeFromWatchlist(symbol) ==
    /\ symbol \in Range(watchlist)
    /\ watchlist' = Without(watchlist, symbol)
    /\ selectedStock' = IF selectedStock = symbol /\ Len(watchlist) > 1
                        THEN watchlist[1]
                        ELSE selectedStock
    /\ UNCHANGED <<cards, job_state>>

\* onClick of a watchlist row, or of a quote card
setSelectedStock(symbol) ==
    /\ symbol \in Range(watchlist) \cup cards
    /\ selectedStock' = symbol
    /\ UNCHANGED <<watchlist, cards, job_state>>

\* the page's fetchMarketData: the quotes of the watchlist's symbols
fetchMarketData ==
    /\ cards' = {r.symbol : r \in market_data} \cap Range(watchlist)
    /\ UNCHANGED <<watchlist, selectedStock, job_state>>

NextWatch ==
    \/ \E symbol \in WatchSymbols : handleAddToWatchlist(symbol)
    \/ \E symbol \in WatchSymbols : removeFromWatchlist(symbol)
    \/ \E symbol \in WatchSymbols : setSelectedStock(symbol)
    \/ fetchMarketData

SpecWatch == Init /\ [][NextWatch]_vars

\* ====================================================== properties
Succeeded(i) == Done(i) /\ job[i].response.body.kind = "success"

\* invocation i is the most recent one
Latest(i) == Started(i) /\ \A k \in Invocations : k > i => ~Started(k)

\* what invocation i has received from the provider and sent to the store
Answers(i) == SelectSeq(answerLog, LAMBDA e : e.inv = i)
Requests(i) == SelectSeq(providerLog, LAMBDA e : e.inv = i)
Writes(i, table) ==
    SelectSeq(storeLog, LAMBDA e : e.inv = i /\ e.table = table)

\* the successful fetches of invocation i
Quotes(i) == SelectSeq(Answers(i), LAMBDA e : e.fetched)

QuoteRows(rows, symbol) == {r \in rows : r.symbol = symbol}

\* C1: partial-failure batch continuation.  When an invocation has answered
\* with success, every requested symbol was fetched, whatever the outcome
\* of the earlier fetches; the market_data upserts it sent are exactly the
\* symbols whose fetch succeeded, in order, with the fetched price; the
\* response's updated is the number of those symbols and its symbols the
\* requested list; and the quote of each of them is stored.
BatchContinuation ==
    \A i \in Invocations : Succeeded(i) =>
        LET j == job[i]
            body == j.response.body
            ups == Writes(i, "market_data")
        IN /\ Len(Answers(i)) = Len(j.uniqueSymbols)
           /\ \A k \in 1..Len(j.uniqueSymbols) :
                 Answers(i)[k].symbol = j.uniqueSymbols[k]
           /\ body.symbols = j.uniqueSymbols
           /\ body.updated = Len(Quotes(i))
           /\ Len(ups) = Len(Quotes(i))
           /\ \A k \in 1..Len(ups) :
                 /\ ups[k].symbol = Quotes(i)[k].symbol
                 /\ ups[k].price = Quotes(i)[k].price
                 /\ ups[k].ok
                 /\ Latest(i) =>
                      \E r \in market_data :
                         /\ r.symbol = ups[k].symbol
                         /\ r.price = Round2(ups[k].price.v)

\* three symbols, the second fetch failing, the other two stored
BatchContinuationWitness ==
    \E i \in Invocations :
        /\ Succeeded(i)
        /\ Len(Answers(i)) = 3
        /\ Answers(i)[1].fetched
        /\ ~Answers(i)[2].fetched
        /\ Answers(i)[3].fetched
        /\ job[i].response.body.updated = 2
        /\ Len(job[i].response.body.symbols) = 3
        /\ Len(Writes(i, "market_data")) = 2

\* C2: stale but present.  For a symbol whose fetch failed or carried no
\* price, the invocation sends no market_data upsert and no
\* historical_prices insert, and the symbol's quote row is as the
\* invocation found it.
StaleButPresent ==
    \A i \in Invocations :
        \A k \in 1..Len(Answers(i)) :
            LET e == Answers(i)[k] IN
            ~e.fetched =>
                /\ \A w \in Range(storeLog) :
                      (w.inv = i /\ w.symbol = e.symbol)
                          => w.table \notin {"market_data", "historical_prices"}
                /\ Latest(i) =>
                      QuoteRows(market_data, e.symbol)
                          = QuoteRows(job[i].before.market_data, e.symbol)

\* a finished run in which a symbol with a stored quote failed to fetch
\* while another symbol of the run was written
StaleButPresentWitness ==
    \E i \in Invocations :
        /\ Succeeded(i)
        /\ \E k \in 1..Len(Answers(i)) :
              /\ ~Answers(i)[k].fetched
              /\ QuoteRows(market_data, Answers(i)[k].symbol) # {}
        /\ Len(Writes(i, "market_data")) > 0

\* C3: rate-limit pacing.  Two consecutive provider requests of one
\* invocation are at least the delay apart.
RateLimitPacing ==
    \A i \in Invocations :
        \A k \in 1..(Len(Requests(i)) - 1) :
            Requests(i)[k + 1].at - Requests(i)[k].at >= DelayMs

\* C4: first observation raises no alert.  No notification is sent for a
\* symbol that had no quote row when the invocation began.
FirstObservationNoAlert ==
    \A w \in Range(storeLog) :
        w.table = "notifications" =>
            QuoteRows(job[w.inv].before.market_data, w.symbol) # {}

Notified(j) ==
    /\ Len(notifications) = 1
    /\ notifications[1].user_id = j.userId
    /\ notifications[1].symbol = j.symbol

\* C5: threshold boundary.  checkPriceAlerts, called with a finite new
\* price and an old price above zero, has created a notification when it
\* returns if and only if the user has a threshold row for the symbol and
\* |new - old| / old * 100 >= threshold_percent (prices here are whole
\* cents, so old / 100 is exact).
ThresholdBoundary ==
    LET j == job[1]
        rows == {t \in alert_thresholds :
                    t.user_id = j.userId /\ t.symbol = j.symbol}
    IN (j.pc = "returned" /\ j.oldPrice.k = "num" /\ j.oldPrice.v > 0
            /\ j.newPrice.k = "num")
       => /\ Notified(j) <=>
                \E t \in rows :
                    Abs(j.newPrice.v - j.oldPrice.v) * 100
                        >= t.threshold_percent * (j.oldPrice.v \div 100)
          /\ ~Notified(j) => notifications = <<>>

\* old 100.00, new 105.00, threshold 5.00: notified
ThresholdBoundaryWitness ==
    /\ job[1].pc = "returned"
    /\ job[1].oldPrice = Num(1000000)
    /\ job[1].newPrice = Num(1050000)
    /\ \E t \in alert_thresholds :
          /\ t.user_id = job[1].userId
          /\ t.symbol = job[1].symbol
          /\ t.threshold_percent = 500
    /\ Notified(job[1])

OwnedPortfolios(u) == {q.id : q \in {r \in portfolios : r.owner_id = u}}
HeldSymbols(u) ==
    {t.symbol : t \in {x \in Range(transactions) :
                          x.portfolio_id \in OwnedPortfolios(u)}}

\* C6: no-op on an empty symbol set.  A caller without portfolios, or whose
\* portfolios hold no transactions, is answered 200 with the message
\* "No portfolios found", respectively "No symbols to update"; the
\* invocation sends nothing to the provider and nothing to the store, and
\* leaves the four tables as it found them.
NoOpOnEmptySymbolSet ==
    \A i \in Invocations :
        (Done(i) /\ job[i].user # NoUser /\ HeldSymbols(job[i].user) = {})
        => /\ job[i].response.status = 200
           /\ job[i].response.body.kind = "message"
           /\ job[i].response.body.text =
                 IF OwnedPortfolios(job[i].user) = {}
                 THEN "No portfolios found" ELSE "No symbols to update"
           /\ Requests(i) = <<>>
           /\ \A w \in Range(storeLog) : w.inv # i
           /\ Latest(i) => Snapshot = job[i].before

\* a caller whose portfolio holds no transactions has been answered, after
\* an earlier run that wrote to the store
NoOpOnEmptySymbolSetWitness ==
    \E i \in Invocations :
        /\ Done(i)
        /\ job[i].user = "u4"
        /\ job[i].response.body.text = "No symbols to update"
        /\ storeLog # <<>>

IsPrefix(a, b) == Len(a) <= Len(b) /\ SubSeq(b, 1, Len(a)) = a

HistoryOf(symbol) ==
    SelectSeq(historical_prices, LAMBDA r : r.symbol = symbol)
FetchesOf(symbol) ==
    SelectSeq(answerLog, LAMBDA e : e.symbol = symbol /\ e.fetched)

HistoryMatchesFetches ==
    \A symbol \in Symbols :
        LET rows == HistoryOf(symbol)
            fetched == FetchesOf(symbol)
        IN /\ Len(rows) <= Len(fetched)
           /\ \A k \in 1..Len(rows) :
                 /\ rows[k].price = fetched[k].price.v
                 /\ rows[k].close_price = rows[k].price
           /\ (\A i \in Invocations : job[i].pc \in {"idle", "done"})
                 => Len(rows) = Len(fetched)

\* C7: history is append-only.  A step never removes or changes a row of
\* historical_prices; the rows of a symbol are, in order, the successful
\* fetches of that symbol, each with price = close_price = the fetched
\* price, and once every run has finished there is one row per
\* successful fetch.
HistoryAppendOnly ==
    /\ [][IsPrefix(historical_prices, historical_prices')]_vars
    /\ []HistoryMatchesFetches

\* two runs have each fetched AAPL, and AAPL has two rows
HistoryAppendOnlyWitness ==
    /\ \A i \in Invocations : Done(i)
    /\ Len(FetchesOf("AAPL")) = 2
    /\ Len(HistoryOf("AAPL")) = 2
    /\ FetchesOf("AAPL")[1].inv # FetchesOf("AAPL")[2].inv

UpsertsOf(symbol) ==
    SelectSeq(storeLog, LAMBDA w :
        w.table = "market_data" /\ w.symbol = symbol /\ w.ok)

\* C8: idempotent upsert.  There is at most one market_data row per
\* symbol, and it holds the price of the last upsert of that symbol
\* rounded to the cent (the column is DECIMAL(15, 2)).
IdempotentUpsert ==
    \A symbol \in Symbols :
        /\ Cardinality(QuoteRows(market_data, symbol)) <= 1
        /\ UpsertsOf(symbol) # <<>> =>
              \E r \in market_data :
                 /\ r.symbol = symbol
                 /\ r.price =
                      Round2(UpsertsOf(symbol)[Len(UpsertsOf(symbol))].price.v)

\* the same quote upserted by two runs, one row
IdempotentUpsertWitness ==
    \E symbol \in Symbols :
        /\ Len(UpsertsOf(symbol)) = 2
        /\ UpsertsOf(symbol)[1].price = UpsertsOf(symbol)[2].price
        /\ UpsertsOf(symbol)[1].inv # UpsertsOf(symbol)[2].inv
        /\ Cardinality(QuoteRows(market_data, symbol)) = 1

\* C8 as stated: the stored price is the upserted price itself
IdempotentUpsertExact ==
    \A symbol \in Symbols :
        /\ Cardinality(QuoteRows(market_data, symbol)) <= 1
        /\ UpsertsOf(symbol) # <<>> =>
              \E r \in market_data :
                 /\ r.symbol = symbol
                 /\ r.price = UpsertsOf(symbol)[Len(UpsertsOf(symbol))].price.v

ReachedFetch(i) ==
    /\ job[i].uniqueSymbols # <<>>
    /\ job[i].pc \notin {"idle", "getUser", "selectPortfolios",
                         "selectTransactions"}

AuditIndex(i) ==
    Cardinality({k \in Invocations : k <= i /\ Done(k) /\ ReachedFetch(k)})

\* C9: one audit entry per run that reaches the fetch phase.  Such a run
\* sends no audit insert before its per-symbol processing is over and
\* exactly one by the time it answers, after all its other writes; the row
\* carries the caller, REFRESH_MARKET_DATA, the requested symbols, the
\* number of fetched symbols and status code 200.
AuditAfterFetchPhase ==
    \A i \in Invocations :
        LET mine == SelectSeq(storeLog, LAMBDA w : w.inv = i)
            audits == Writes(i, "audit_logs")
        IN /\ (ReachedFetch(i) /\ ~Done(i)) => audits = <<>>
           /\ (ReachedFetch(i) /\ Done(i)) =>
                 /\ Len(audits) = 1
                 /\ mine[Len(mine)].table = "audit_logs"
                 /\ job[i].response.status = 200
                 /\ AuditIndex(i) <= Len(audit_logs)
                 /\ audit_logs[AuditIndex(i)] =
                       [user_id |-> job[i].user,
                        action |-> "REFRESH_MARKET_DATA",
                        resource_type |-> "market_data",
                        details |-> [symbols |-> job[i].uniqueSymbols,
                                     count |-> Len(Quotes(i))],
                        status_code |-> 200]

\* a run none of whose three symbols was fetched, audited with count 0
AuditAfterFetchPhaseWitness ==
    \E i \in Invocations :
        /\ Done(i)
        /\ Len(Answers(i)) = 3
        /\ Quotes(i) = <<>>
        /\ Len(Writes(i, "audit_logs")) = 1
        /\ audit_logs[AuditIndex(i)].details.count = 0

\* C10: an invocation sends exactly one audit insert if it reaches the
\* fetch phase and none otherwise: a CORS preflight, an authentication
\* error, a failed read of portfolios or transactions, and the
\* no-portfolio and no-symbol returns leave no audit entry.
AuditOnlyAfterFetchPhase ==
    \A i \in Invocations : Done(i) =>
        /\ Len(Writes(i, "audit_logs")) = IF ReachedFetch(i) THEN 1 ELSE 0
        /\ (job[i].response.status = 500
               \/ job[i].response.body.kind # "success")
              => Writes(i, "audit_logs") = <<>>

\* an invocation ended in an unhandled error and left no audit entry
AuditOnlyAfterFetchPhaseWitness ==
    \E i \in Invocations :
        /\ Done(i)
        /\ job[i].response.status = 500
        /\ job[i].response.body.text = "portfolios read failed"
        /\ Writes(i, "audit_logs") = <<>>
        /\ audit_logs = <<>>

\* C10 as stated: every invocation leaves exactly one audit entry
AuditEveryInvocation ==
    \A i \in Invocations : Done(i) => Len(Writes(i, "audit_logs")) = 1

\* the market_data upserts of invocation i that took effect
Updated(i) == SelectSeq(Writes(i, "market_data"), LAMBDA w : w.ok)

\* C11: the success response.  updated is the number of symbols whose
\* market_data row the invocation updated, symbols is the requested list,
\* and note is the all-updated text exactly when updated equals the number
\* of requested symbols, the some-not-updated text otherwise.
ResponseReportsUpdates ==
    \A i \in Invocations : Succeeded(i) =>
        LET body == job[i].response.body
        IN /\ body.updated = Len(Updated(i))
           /\ body.symbols = job[i].uniqueSymbols
           /\ body.note =
                 IF body.updated = Len(job[i].uniqueSymbols)
                 THEN NoteAll ELSE NoteSome

\* user u holds symbol s and has a threshold that the move from the stored
\* price old (whole cents, above zero) to the fetched price new reaches
AlertDue(u, s, old, new) ==
    /\ s \in HeldSymbols(u)
    /\ old > 0
    /\ \E t \in alert_thresholds :
          /\ t.user_id = u
          /\ t.symbol = s
          /\ Abs(new - old) * 100 >= t.threshold_percent * (old \div 100)

\* the notifications created since invocation i began
NotifiedSince(i) ==
    SubSeq(notifications, Len(job[i].before.notifications) + 1,
           Len(notifications))

\* C12: per-owner alerting.  When a finished refresh has moved the stored
\* price of a symbol by at least the threshold of a user who holds the
\* symbol, that user has a notification for the symbol, whoever triggered
\* the refresh.
PerOwnerAlerting ==
    \A i \in Invocations : (Succeeded(i) /\ Latest(i)) =>
        \A k \in 1..Len(Updated(i)) :
            LET w == Updated(i)[k] IN
            \A u \in Users :
                \A r \in QuoteRows(job[i].before.market_data, w.symbol) :
                    AlertDue(u, w.symbol, r.price, w.price.v) =>
                        \E n \in Range(NotifiedSince(i)) :
                            n.user_id = u /\ n.symbol = w.symbol

\* invocation i came without a bearer credential, or with one that names
\* no user
AuthFailed(i) ==
    /\ job[i].method = "POST"
    /\ \A u \in Users : job[i].authHeader # "Bearer " \o u

\* C13: an invocation whose credential is missing or resolves to no user
\* is aborted before any work.  It reads no table, sends nothing to the
\* provider and nothing to the store, leaves the four tables as it found
\* them, and is answered with an error.
AuthAbortsBeforeWork ==
    \A i \in Invocations : AuthFailed(i) =>
        /\ job[i].reads = {}
        /\ Requests(i) = <<>>
        /\ \A w \in Range(storeLog) : w.inv # i
        /\ Latest(i) => Snapshot = job[i].before
        /\ Done(i) =>
              /\ job[i].response.body.kind = "error"
              /\ job[i].response.status >= 400

\* an expired credential is turned away after an earlier run wrote to the
\* store
AuthAbortsBeforeWorkWitness ==
    \E i \in Invocations :
        /\ Done(i)
        /\ job[i].authHeader = "Bearer expired"
        /\ job[i].response.body.text = "Unauthorized"
        /\ storeLog # <<>>
        /\ \A w \in Range(storeLog) : w.inv # i

\* C14: an authentication failure is answered with a 401-class status and
\* the message "Unauthorized" or "No authorization header", not with the
\* 500 of an unhandled error.
AuthFailureIs401 ==
    \A i \in Invocations : (Done(i) /\ AuthFailed(i)) =>
        /\ job[i].response.status \in 400..499
        /\ job[i].response.body.text
              \in {"Unauthorized", "No authorization header"}

\* the successful fetches of a symbol whose run has upserted the symbol
PersistedFetchesOf(symbol) ==
    SelectSeq(FetchesOf(symbol), LAMBDA e :
        \E w \in Range(UpsertsOf(symbol)) : w.inv = e.inv)

LastOf(s) == s[Len(s)]

\* the answer a run received for a symbol
FetchBy(i, symbol) ==
    LastOf(SelectSeq(FetchesOf(symbol), LAMBDA e : e.inv = i))

\* C15: the quote row under interleaving.  The market_data row of a symbol
\* holds (to the cent) the price fetched by the run whose upsert of the
\* symbol completed last: last write wins, whichever run fetched later.
QuoteReflectsLastWrite ==
    \A symbol \in Symbols : UpsertsOf(symbol) # <<>> =>
        /\ QuoteRows(market_data, symbol) # {}
        /\ \A r \in QuoteRows(market_data, symbol) :
              r.price =
                 Round2(FetchBy(LastOf(UpsertsOf(symbol)).inv, symbol).price.v)

\* two runs overlapped: the run that fetched the symbol first wrote it last,
\* and the row holds its price, not the price fetched later
QuoteReflectsLastWriteWitness ==
    \E symbol \in Symbols :
        /\ Len(PersistedFetchesOf(symbol)) = 2
        /\ LastOf(UpsertsOf(symbol)).inv = PersistedFetchesOf(symbol)[1].inv
        /\ PersistedFetchesOf(symbol)[1].inv # PersistedFetchesOf(symbol)[2].inv
        /\ Round2(PersistedFetchesOf(symbol)[1].price.v)
              # Round2(PersistedFetchesOf(symbol)[2].price.v)
        /\ \E r \in market_data :
              /\ r.symbol = symbol
              /\ r.price = Round2(PersistedFetchesOf(symbol)[1].price.v)

\* C15 as stated: the row holds (to the cent) the price of the most recent
\* successful fetch among those whose result has been persisted
QuoteReflectsLatestFetch ==
    \A symbol \in Symbols : PersistedFetchesOf(symbol) # <<>> =>
        \A r \in QuoteRows(market_data, symbol) :
            r.price = Round2(LastOf(PersistedFetchesOf(symbol)).price.v)

SymbolsOf(entries) == [k \in 1..Len(entries) |-> entries[k].symbol]

\* C16: per-symbol persistence failures do not stop the batch.  Whether or
\* not its store writes took effect, a finished run that reached the fetch
\* phase has sent one market_data upsert and one historical_prices insert
\* for every fetched symbol, in order, has called checkPriceAlerts for
\* every fetched symbol, has sent the audit insert and has answered with
\* success.
ContinuesAfterWriteFailure ==
    \A i \in Invocations : (Done(i) /\ ReachedFetch(i)) =>
        /\ SymbolsOf(Writes(i, "market_data")) = SymbolsOf(Quotes(i))
        /\ SymbolsOf(Writes(i, "historical_prices")) = SymbolsOf(Quotes(i))
        /\ job[i].evaluated = SymbolsOf(Quotes(i))
        /\ Len(Writes(i, "audit_logs")) = 1
        /\ Succeeded(i)
        /\ job[i].response.status = 200

\* the upsert of the first fetched symbol failed; the second symbol was
\* upserted, recorded and evaluated, and the run answered with success
ContinuesAfterWriteFailureWitness ==
    \E i \in Invocations :
        /\ Succeeded(i)
        /\ Len(Writes(i, "market_data")) >= 2
        /\ ~Writes(i, "market_data")[1].ok
        /\ Writes(i, "market_data")[2].ok
        /\ Len(Writes(i, "historical_prices")) >= 2
        /\ Len(job[i].evaluated) >= 2
        /\ storeFailures = 1

RespondsOnce(i) ==
    /\ Done(i) <=> job[i].response # NoResponse
    /\ (Done(i) /\ ReachedFetch(i)) =>
          /\ SymbolsOf(Answers(i)) = job[i].uniqueSymbols
          /\ job[i].evaluated = SymbolsOf(Quotes(i))
          /\ job[i].mi = Len(job[i].marketData) + 1

\* C18: every invocation eventually ends with exactly one response.  Given
\* that every provider request, store call and timer eventually completes,
\* a started invocation reaches its response; the response, once given, is
\* never replaced; and a run that reached the fetch phase has requested
\* and processed its whole symbol list by then.
EventuallyResponds ==
    /\ \A i \in Invocations : Started(i) ~> Done(i)
    /\ [][\A i \in Invocations : Done(i) => job'[i] = job[i]]_vars
    /\ [](\A i \in Invocations : RespondsOnce(i))

\* a run over three symbols has answered although a store call failed
EventuallyRespondsWitness ==
    \E i \in Invocations :
        /\ Succeeded(i)
        /\ Len(job[i].uniqueSymbols) = 3
        /\ Len(Answers(i)) = 3
        /\ storeFailures = 1

\* the fetcher of invocation i has returned
FetcherReturned(i) == job[i].fi = Len(job[i].uniqueSymbols) + 1

SameQuotes(results, quotes) ==
    /\ Len(results) = Len(quotes)
    /\ \A k \in 1..Len(results) :
          /\ results[k].symbol = quotes[k].symbol
          /\ results[k].price = quotes[k].price

\* C19: the fetcher's result is an order-preserving subsequence of its
\* input.  For every input list and every pattern of failures, the
\* returned list holds exactly the symbols whose fetch succeeded, once per
\* input occurrence, in input order, with the fetched price, and nothing
\* for a failed symbol; every input symbol was requested.
FetcherPreservesOrder ==
    /\ ~FetcherReturned(1) => SameQuotes(job[1].results, Quotes(1))
    /\ FetcherReturned(1) =>
          /\ SymbolsOf(Answers(1)) = job[1].uniqueSymbols
          /\ SameQuotes(job[1].marketData, Quotes(1))

\* AAPL, MSFT, AAPL with the fetch of MSFT failing: AAPL, AAPL is returned
FetcherPreservesOrderWitness ==
    /\ FetcherReturned(1)
    /\ job[1].uniqueSymbols = <<"AAPL", "MSFT", "AAPL">>
    /\ SymbolsOf(job[1].marketData) = <<"AAPL", "AAPL">>
    /\ job[1].marketData[1].price # job[1].marketData[2].price

NoRepeats(s) == Cardinality(Range(s)) = Len(s)

\* C20: one request per resolved symbol.  The requests of an invocation
\* are, in order, the symbols of its resolved list, one each even after a
\* failed fetch; a request leaves only once the previous one has been
\* answered; and the resolved list holds every symbol of the caller's
\* transactions exactly once.
OneRequestPerSymbol ==
    \A i \in Invocations :
        /\ IsPrefix(SymbolsOf(Requests(i)), job[i].uniqueSymbols)
        /\ Len(Requests(i)) - Len(Answers(i))
              = IF job[i].pc = "awaitFetch" THEN 1 ELSE 0
        /\ SymbolsOf(Answers(i))
              = SubSeq(SymbolsOf(Requests(i)), 1, Len(Answers(i)))
        /\ ReachedFetch(i) =>
              /\ Range(job[i].uniqueSymbols) = HeldSymbols(job[i].user)
              /\ NoRepeats(job[i].uniqueSymbols)
        /\ (Done(i) /\ ReachedFetch(i)) =>
              SymbolsOf(Requests(i)) = job[i].uniqueSymbols

\* u1, whose two portfolios both hold AAPL, was served with three requests
\* although the first fetch failed
OneRequestPerSymbolWitness ==
    \E i \in Invocations :
        /\ Done(i)
        /\ job[i].user = "u1"
        /\ SymbolsOf(Requests(i)) = <<"AAPL", "MSFT", "GOOG">>
        /\ ~Answers(i)[1].fetched

\* checkPriceAlerts is running for invocation i
Evaluating(i) == job[i].pc \in {"selectThresholds", "insertNotification"}

\* the old price the batch read gives for a symbol and a fetched price
BatchReadPrice(i, symbol, newPrice) ==
    IF symbol \in DOMAIN job[i].currentPrices
          /\ job[i].currentPrices[symbol] # 0
    THEN Num(job[i].currentPrices[symbol])
    ELSE newPrice

\* C21: phase ordering within one invocation.  The batch read of
\* market_data comes before the first provider request; every provider
\* request has been made and answered before the first store write; the
\* writes go symbol by symbol, upsert, then history insert, then the call
\* of checkPriceAlerts; and checkPriceAlerts works on the old price of the
\* batch read, taken when the invocation began, and the fetched price.
PhaseOrdering ==
    \A i \in Invocations :
        LET ups == Writes(i, "market_data")
            hist == Writes(i, "historical_prices")
        IN /\ Requests(i) # <<>> => "market_data" \in job[i].reads
           /\ (\E w \in Range(storeLog) : w.inv = i) =>
                 /\ SymbolsOf(Requests(i)) = job[i].uniqueSymbols
                 /\ Len(Answers(i)) = Len(Requests(i))
           /\ IsPrefix(SymbolsOf(hist), SymbolsOf(ups))
           /\ Len(ups) <= Len(hist) + 1
           /\ job[i].evaluated = SymbolsOf(hist)
           /\ job[i].pc = "insertHistory" <=> Len(ups) = Len(hist) + 1
           /\ \A s \in DOMAIN job[i].currentPrices :
                 \E r \in job[i].before.market_data :
                    r.symbol = s /\ r.price = job[i].currentPrices[s]
           /\ Evaluating(i) =>
                 /\ job[i].symbol = LastOf(hist).symbol
                 /\ job[i].newPrice = Quotes(i)[Len(hist)].price
                 /\ job[i].oldPrice
                       = BatchReadPrice(i, job[i].symbol, job[i].newPrice)

\* checkPriceAlerts runs on AAPL with the old price 100.00 of the batch
\* read while the store already holds the new price 95.00
PhaseOrderingWitness ==
    \E i \in Invocations :
        /\ Evaluating(i)
        /\ job[i].symbol = "AAPL"
        /\ job[i].oldPrice = Num(1000000)
        /\ job[i].newPrice = Num(950000)
        /\ \E r \in market_data : r.symbol = "AAPL" /\ r.price = 950000

\* the message of the error a failed read of the table returns
ReadError(table) ==
    IF table = "portfolios" THEN "portfolios read failed"
    ELSE "transactions read failed"

\* C22: a failed read of the caller's portfolios or transactions.  The
\* invocation is answered with HTTP 500 and the error's message; it has
\* sent nothing to the provider and nothing to the store, and the four
\* tables are as it found them.
PrerequisiteReadFailure ==
    \A i \in Invocations :
        \A table \in job[i].failed \cap {"portfolios", "transactions"} :
            /\ Done(i)
            /\ job[i].response = Response(500, ErrorBody(ReadError(table)))
            /\ job[i].reads \subseteq {"portfolios", "transactions"}
            /\ Requests(i) = <<>>
            /\ \A w \in Range(storeLog) : w.inv # i
            /\ Snapshot = job[i].before

\* u1's portfolios were read, the read of the transactions failed
PrerequisiteReadFailureWitness ==
    \E i \in Invocations :
        /\ job[i].user = "u1"
        /\ job[i].failed = {"transactions"}
        /\ job[i].portfolioIds = {"p1", "p2"}
        /\ job[i].response.status = 500

AllDone == \A i \in Invocations : Done(i)

\* the market_data upserts the store received for a symbol
UpsertAttemptsOf(symbol) ==
    SelectSeq(storeLog, LAMBDA w :
        w.table = "market_data" /\ w.symbol = symbol)

\* C23: last-write-wins convergence.  No upsert is rejected; once the
\* overlapping invocations have finished, every fetched quote has been
\* upserted, and a symbol they upserted has exactly one market_data row,
\* holding (to the cent, the column being DECIMAL(15, 2)) the price of the
\* upsert that completed last.
LastWriteWinsConvergence ==
    \A symbol \in Symbols :
        /\ \A w \in Range(UpsertAttemptsOf(symbol)) : w.ok
        /\ (AllDone /\ UpsertsOf(symbol) # <<>>) =>
              /\ Len(UpsertsOf(symbol)) = Len(FetchesOf(symbol))
              /\ Cardinality(QuoteRows(market_data, symbol)) = 1
              /\ \A r \in QuoteRows(market_data, symbol) :
                    r.price = Round2(LastOf(UpsertsOf(symbol)).price.v)

\* two overlapping runs have finished; the one that arrived first wrote
\* AAPL last, and its price is the one stored
LastWriteWinsConvergenceWitness ==
    /\ AllDone
    /\ Len(UpsertsOf("AAPL")) = 2
    /\ UpsertsOf("AAPL")[1].inv = 2
    /\ UpsertsOf("AAPL")[2].inv = 1
    /\ UpsertsOf("AAPL")[1].price # UpsertsOf("AAPL")[2].price
    /\ \E r \in market_data :
          /\ r.symbol = "AAPL"
          /\ r.price = Round2(UpsertsOf("AAPL")[2].price.v)

\* C23 as stated: the row holds the price of the last upsert itself
LastWriteWinsExact ==
    \A symbol \in Symbols :
        /\ \A w \in Range(UpsertAttemptsOf(symbol)) : w.ok
        /\ (AllDone /\ UpsertsOf(symbol) # <<>>) =>
              /\ Len(UpsertsOf(symbol)) = Len(FetchesOf(symbol))
              /\ Cardinality(QuoteRows(market_data, symbol)) = 1
              /\ \A r \in QuoteRows(market_data, symbol) :
                    r.price = LastOf(UpsertsOf(symbol)).price.v

\* C24: the provider's rate ceiling across invocations.  Any two requests
\* the provider receives, from whichever invocations, are at least the
\* delay apart.
ProviderRateCeiling ==
    \A k, l \in 1..Len(providerLog) :
        k < l => providerLog[l].at - providerLog[k].at >= DelayMs

\* C25: one price movement, one notification.  No two notifications carry
\* the same user, symbol, old price and new price.
OneNotificationPerMovement ==
    \A k, l \in 1..Len(notifications) :
        k < l =>
            \/ notifications[k].user_id # notifications[l].user_id
            \/ notifications[k].symbol # notifications[l].symbol
            \/ notifications[k].message.oldPrice
                  # notifications[l].message.oldPrice
            \/ notifications[k].message.newPrice
                  # notifications[l].message.newPrice

\* the audit rows since invocation i began
AuditedSince(i) ==
    SubSeq(audit_logs, Len(job[i].before.audit_logs) + 1, Len(audit_logs))

\* C26: audit count and response agree.  For a finished invocation that
\* reached the fetch phase, the response's updated is the number of quotes
\* the fetcher returned, whether or not their upserts and history inserts
\* took effect, and its symbols the requested list; the audit row, when
\* its insert took effect, carries the same count and the same symbols.
AuditMatchesResponse ==
    \A i \in Invocations : (Done(i) /\ ReachedFetch(i)) =>
        LET body == job[i].response.body
            audits == Writes(i, "audit_logs")
        IN /\ body.updated = Len(Quotes(i))
           /\ body.updated = Len(job[i].marketData)
           /\ body.symbols = job[i].uniqueSymbols
           /\ Len(audits) = 1
           /\ Len(AuditedSince(i)) = IF audits[1].ok THEN 1 ELSE 0
           /\ \A row \in Range(AuditedSince(i)) :
                 /\ row.details.count = body.updated
                 /\ row.details.symbols = body.symbols
                 /\ row.user_id = job[i].user

\* two quotes were fetched and the upsert of one failed: the audit row and
\* the response both say 2
AuditMatchesResponseWitness ==
    \E i \in Invocations :
        /\ Done(i)
        /\ Len(Quotes(i)) = 2
        /\ Len(Updated(i)) = 1
        /\ job[i].response.body.updated = 2
        /\ Len(audit_logs) = 1
        /\ audit_logs[1].details.count = 2

\* C27: a failed batch read of the current prices does not abort the
\* invocation.  It goes on with an empty old-price map: checkPriceAlerts
\* gets old price = new price for every fetched symbol, every fetched
\* quote is upserted and recorded in the history, and the invocation is
\* answered with success.
BatchReadFailureTolerated ==
    \A i \in Invocations : "market_data" \in job[i].failed =>
        /\ job[i].currentPrices = <<>>
        /\ job[i].response.status # 500
        /\ Evaluating(i) => job[i].oldPrice = job[i].newPrice
        /\ \A n \in Range(NotifiedSince(i)) :
              n.message.oldPrice = n.message.newPrice
        /\ Done(i) =>
              /\ Succeeded(i)
              /\ SymbolsOf(Writes(i, "market_data")) = SymbolsOf(Quotes(i))
              /\ SymbolsOf(Writes(i, "historical_prices"))
                    = SymbolsOf(Quotes(i))
              /\ job[i].evaluated = SymbolsOf(Quotes(i))
              /\ storeFailures = 1 =>
                    /\ \A w \in Range(storeLog) : w.ok
                    /\ Len(historical_prices) = Len(Quotes(i))
                    /\ \A k \in 1..Len(Quotes(i)) :
                          \E r \in market_data :
                             /\ r.symbol = Quotes(i)[k].symbol
                             /\ r.price = Round2(Quotes(i)[k].price.v)

\* u1's batch read failed; all three symbols were fetched, stored and
\* recorded, AAPL (stored at 100.00, fetched at 95.00) raised no alert
BatchReadFailureToleratedWitness ==
    \E i \in Invocations :
        /\ Succeeded(i)
        /\ job[i].failed = {"market_data"}
        /\ Len(Updated(i)) = 3
        /\ Len(historical_prices) = 3
        /\ Quotes(i)[1].price = Num(950000)
        /\ \A n \in Range(notifications) : n.symbol # "AAPL"

\* C28: a stored price of 0 is handled like a missing price.  When the
\* job calls checkPriceAlerts for a symbol whose batch-read price is 0 or
\* which has no batch-read price, the old price it passes is the new
\* price; so the job never passes old price 0 with a new price other
\* than 0.
ZeroStoredPriceAsMissing ==
    \A i \in Invocations : (Evaluating(i) /\ job[i].ret = "handler") =>
        /\ (job[i].symbol \notin DOMAIN job[i].currentPrices
               \/ job[i].currentPrices[job[i].symbol] = 0)
              => job[i].oldPrice = job[i].newPrice
        /\ job[i].oldPrice = Num(0) => job[i].newPrice = Num(0)

\* TSLA is stored at 0.00 and fetched at 95.00: checkPriceAlerts runs
\* with old price 95.00
ZeroStoredPriceAsMissingWitness ==
    \E i \in Invocations :
        /\ Evaluating(i)
        /\ job[i].ret = "handler"
        /\ job[i].symbol = "TSLA"
        /\ "TSLA" \in DOMAIN job[i].currentPrices
        /\ job[i].currentPrices["TSLA"] = 0
        /\ job[i].oldPrice = Num(950000)
        /\ job[i].newPrice = Num(950000)

QuoteSymbols(rows) == {r.symbol : r \in rows}

\* a step deletes and rewrites nothing
KeepsRows ==
    /\ IsPrefix(notifications, notifications')
    /\ IsPrefix(historical_prices, historical_prices')
    /\ IsPrefix(audit_logs, audit_logs')
    /\ QuoteSymbols(market_data) \subseteq QuoteSymbols(market_data')
    /\ UNCHANGED <<alert_thresholds, portfolios, transactions>>

\* what invocation i has added carries its caller, and the quotes of the
\* symbols its fetcher did not return are as it found them
OwnFootprint(i) ==
    /\ \A n \in Range(NotifiedSince(i)) : n.user_id = job[i].user
    /\ \A a \in Range(AuditedSince(i)) : a.user_id = job[i].user
    /\ \A symbol \in Symbols \ Range(SymbolsOf(Quotes(i))) :
          QuoteRows(market_data, symbol)
              = QuoteRows(job[i].before.market_data, symbol)

\* C29: the write footprint of an invocation.  No step deletes a row of
\* any table or changes a notification, history or audit row; the
\* invocation changes market_data rows only for the symbols its own
\* fetcher returned; and the notifications and audit rows it inserts
\* carry the caller's user id.
WriteFootprint ==
    /\ [][KeepsRows]_vars
    /\ [](\A i \in Invocations : Latest(i) => OwnFootprint(i))

\* u3 refreshed TSLA after u1's run: u1's notification and the AAPL quote
\* u1's run stored are untouched
WriteFootprintWitness ==
    /\ Succeeded(1)
    /\ Succeeded(2)
    /\ job[1].user = "u1"
    /\ job[2].user = "u3"
    /\ Len(Updated(2)) = 1
    /\ notifications # <<>>
    /\ NotifiedSince(2) = <<>>
    /\ \E r \in market_data : r.symbol = "TSLA" /\ r.price = 950000
    /\ \E r \in market_data : r.symbol = "AAPL" /\ r.price = 950000

\* C30: the MarketWatch watchlist.  The watchlist holds no symbol twice,
\* and when it is not empty the selected stock is one of its symbols.
WatchlistSelection ==
    /\ NoRepeats(watchlist)
    /\ watchlist # <<>> => selectedStock \in Range(watchlist)

====
